---- MODULE Spec2Model ----
(***************************************************************************)
(* FullDash (noor-latif/fulldash): the revenue-split engine                *)
(* (store.CalcRevenueSplit, splitByOwner) and the metrics aggregator       *)
(* (store.GetMetrics, calcRevenueShares) over the SQLite store.            *)
(*                                                                         *)
(* float64 values are modelled as exact rationals [n, d] in lowest terms;  *)
(* d = 0 stands for the IEEE results of a division by zero (n = 1: +Inf,   *)
(* n = -1: -Inf, n = 0: NaN).                                              *)
(***************************************************************************)
EXTENDS Integers, Sequences, FiniteSets, TLC

(***************************************************************************)
(* Bounds of the model.                                                    *)
(***************************************************************************)
\* longest contribution list handed to CalcRevenueSplit
MaxLen == 3
\* largest hours value of a contribution (the smallest is -1)
MaxHours == 2
\* number of project ids the store hands out
MaxProjects == 2
\* number of requests served at the same time
MaxCalls == 2

(***************************************************************************)
(* models: Owner, ProjectStatus.                                           *)
(***************************************************************************)
OwnerNoor == "noor"
OwnerAhmad == "ahmad"
OwnerBoth == "both"
StatusNew == "new"
StatusProgress == "in_progress"
StatusDone == "done"
StatusPaid == "paid"

\* a secured_by value outside the enumeration (models.Owner is a string)
OwnerOther == "carol"

Owners == {OwnerNoor, OwnerAhmad, OwnerBoth}
Statuses == {StatusNew, StatusProgress, StatusDone, StatusPaid}

(***************************************************************************)
(* float64 arithmetic, exact.                                              *)
(***************************************************************************)
Abs(x) == IF x < 0 THEN -x ELSE x

Sign(x) == IF x < 0 THEN -1 ELSE IF x > 0 THEN 1 ELSE 0

RECURSIVE GCD(_, _)
GCD(a, b) == IF b = 0 THEN a ELSE GCD(b, a % b)

Norm(n, d) ==
    IF d = 0 THEN [n |-> Sign(n), d |-> 0]
    ELSE LET g == GCD(Abs(n), Abs(d))
             s == IF d < 0 THEN -1 ELSE 1
         IN  [n |-> (s * n) \div g, d |-> (s * d) \div g]

F(i) == [n |-> i, d |-> 1]

NaN == [n |-> 0, d |-> 0]

IsFinite(a) == a.d > 0

FMul(a, b) == Norm(a.n * b.n, a.d * b.d)

FDiv(a, b) == Norm(a.n * b.d, a.d * b.n)

FAdd(a, b) ==
    IF a.d = 0 /\ b.d = 0 THEN (IF a.n = b.n THEN a ELSE NaN)
    ELSE IF a.d = 0 THEN a
    ELSE IF b.d = 0 THEN b
    ELSE Norm(a.n * b.d + b.n * a.d, a.d * b.d)

\* a > 0 and a <= 0 of Go: both false of NaN
FGt0(a) == a.n > 0

FLe0(a) == a.n <= 0 /\ a # NaN

(***************************************************************************)
(* State.                                                                  *)
(***************************************************************************)
VARIABLES
    p,          \* the *models.Project handed to CalcRevenueSplit
    contribs,   \* the []models.Contribution handed to CalcRevenueSplit
    split,      \* the *models.RevenueSplit it returned
    divs,       \* the divisors it evaluated on the way
    projects,   \* table projects: id -> row
    contributions, \* table contributions: its rows
    nextID,     \* AUTOINCREMENT of projects
    ret,        \* what the last store call returned
    calls,      \* the locals of the requests in progress, by request
    legacy      \* the tables of the earlier package db

vars == <<p, contribs, split, divs, projects, contributions, nextID, ret, calls, legacy>>

splitVars == <<p, contribs, split, divs>>

storeVars == <<projects, contributions, nextID, ret>>

\* what a call of package store leaves alone
otherVars == <<p, contribs, split, divs, calls, legacy>>

\* what a statement that writes leaves alone; what becomes of the requests in
\* progress while it runs is for the specification to say
writeFrame == <<p, contribs, split, divs, legacy>>

(***************************************************************************)
(* store/metrics.go: CalcRevenueSplit, splitByOwner.                       *)
(***************************************************************************)
RevenueSplit(noor, ahmad, method) ==
    [NoorShare |-> noor, AhmadShare |-> ahmad, Method |-> method]

\* revenue <= 0: no split at all
NoRevenueStrict(proj) == proj.Revenue.n < 0 /\ proj.Revenue # NaN

NoRevenueZeroOnly(proj) == proj.Revenue = F(0)

NoRevenue(proj) == FLe0(proj.Revenue)

\* the loop over contribs: the last entry of an owner wins, other owners are skipped
RECURSIVE ExtractHours(_, _)
ExtractHours(cs, owner) ==
    IF cs = <<>> THEN F(0)
    ELSE LET c == cs[Len(cs)]
         IN  IF c.Owner = owner THEN c.Hours
             ELSE ExtractHours(SubSeq(cs, 1, Len(cs) - 1), owner)

\* the guard of the hours branch
BothLoggedEither(noorHours, ahmadHours) == FGt0(noorHours) \/ FGt0(ahmadHours)

BothLoggedGeq(noorHours, ahmadHours) == noorHours.n >= 0 /\ ahmadHours.n >= 0

BothLogged(noorHours, ahmadHours) == FGt0(noorHours) /\ FGt0(ahmadHours)

\* the hours branch
HoursSplitOverNoor(revenue, noorHours, ahmadHours) ==
    LET total == FAdd(noorHours, ahmadHours)
    IN  RevenueSplit(FMul(revenue, FDiv(noorHours, total)),
                     FMul(revenue, FDiv(ahmadHours, noorHours)), "hours")

HoursSplitSwapped(revenue, noorHours, ahmadHours) ==
    LET total == FAdd(noorHours, ahmadHours)
    IN  RevenueSplit(FMul(revenue, FDiv(ahmadHours, total)),
                     FMul(revenue, FDiv(noorHours, total)), "hours")

HoursSplit(revenue, noorHours, ahmadHours) ==
    LET total == FAdd(noorHours, ahmadHours)
    IN  RevenueSplit(FMul(revenue, FDiv(noorHours, total)),
                     FMul(revenue, FDiv(ahmadHours, total)), "hours")

splitByOwnerNoDefault(proj) ==
    CASE proj.SecuredBy = OwnerNoor -> RevenueSplit(proj.Revenue, F(0), "owner")
      [] proj.SecuredBy = OwnerAhmad -> RevenueSplit(F(0), proj.Revenue, "owner")
      [] proj.SecuredBy = OwnerBoth ->
            LET half == FDiv(proj.Revenue, F(2))
            IN  RevenueSplit(half, half, "owner")
      [] OTHER -> RevenueSplit(F(0), F(0), "owner")

splitByOwnerBothFull(proj) ==
    CASE proj.SecuredBy = OwnerNoor -> RevenueSplit(proj.Revenue, F(0), "owner")
      [] proj.SecuredBy = OwnerAhmad -> RevenueSplit(F(0), proj.Revenue, "owner")
      [] OTHER -> RevenueSplit(proj.Revenue, proj.Revenue, "owner")

splitByOwner(proj) ==
    CASE proj.SecuredBy = OwnerNoor -> RevenueSplit(proj.Revenue, F(0), "owner")
      [] proj.SecuredBy = OwnerAhmad -> RevenueSplit(F(0), proj.Revenue, "owner")
      [] OTHER ->
            LET half == FDiv(proj.Revenue, F(2))
            IN  RevenueSplit(half, half, "owner")

\* the divisors CalcRevenueSplit evaluates on its way
Divisors(proj, cs) ==
    LET noorHours == ExtractHours(cs, OwnerNoor)
        ahmadHours == ExtractHours(cs, OwnerAhmad)
    IN  IF NoRevenue(proj) THEN {}
        ELSE IF BothLogged(noorHours, ahmadHours)
             THEN {FAdd(noorHours, ahmadHours)}
             ELSE {}

CalcRevenueSplit(proj, cs) ==
    LET noorHours == ExtractHours(cs, OwnerNoor)
        ahmadHours == ExtractHours(cs, OwnerAhmad)
    IN  IF NoRevenue(proj) THEN RevenueSplit(F(0), F(0), "none")
        ELSE IF BothLogged(noorHours, ahmadHours)
             THEN HoursSplit(proj.Revenue, noorHours, ahmadHours)
             ELSE splitByOwner(proj)

(***************************************************************************)
(* The split engine on its own: every input of the bounded sets, one call. *)
(***************************************************************************)
Revenues == {-50, 0, 1, 100}

SecuredByVals == {OwnerNoor, OwnerAhmad, OwnerBoth, OwnerOther}

HoursVals == (-1) .. MaxHours

ContribInputs == [Owner : Owners, Hours : {F(h) : h \in HoursVals}]

ContribLists == UNION {[1 .. n -> ContribInputs] : n \in 0 .. MaxLen}

NoSplit == [Method |-> "not called"]

NoProject == [Status |-> "absent"]

NoRet == [op |-> "none"]

\* no request in progress
Requests == 1 .. MaxCalls

Idle == [pc |-> "idle"]

NoCalls == [r \in Requests |-> Idle]

\* the empty tables of package db
NoLegacy ==
    [projects |-> [i \in 1 .. MaxProjects |-> NoProject], contributions |-> <<>>,
     nextID |-> 1]

InitSplit ==
    /\ p \in [Revenue : {F(r) : r \in Revenues}, SecuredBy : SecuredByVals]
    /\ contribs \in ContribLists
    /\ split = NoSplit
    /\ divs = {}
    /\ projects = [i \in 1 .. MaxProjects |-> NoProject]
    /\ contributions = {}
    /\ nextID = 1
    /\ ret = NoRet
    /\ calls = NoCalls
    /\ legacy = NoLegacy

CallCalcRevenueSplit ==
    /\ split = NoSplit
    /\ split' = CalcRevenueSplit(p, contribs)
    /\ divs' = Divisors(p, contribs)
    /\ UNCHANGED <<p, contribs, storeVars, calls, legacy>>

NextSplit == CallCalcRevenueSplit

SpecSplit == InitSplit /\ [][NextSplit]_vars

(***************************************************************************)
(* store/db.go, store/contributions.go, store/queries.go: the tables and   *)
(* the statements on them.                                                 *)
(***************************************************************************)
IDs == 1 .. MaxProjects

Project(rev, st, sec, stripe) ==
    [Revenue |-> rev, Status |-> st, SecuredBy |-> sec, StripePaymentID |-> stripe]

Contribution(pid, owner, hours, notes) ==
    [ProjectID |-> pid, Owner |-> owner, Hours |-> hours, Notes |-> notes]

\* table projects with the CHECK of status alone
projectsCheckStatusOnly(st, sec) ==
    st \in {StatusNew, StatusProgress, StatusDone, StatusPaid}

\* CHECK(status IN (...)) and CHECK(secured_by IN (...)) of table projects
projectsCheck(st, sec) ==
    /\ st \in {StatusNew, StatusProgress, StatusDone, StatusPaid}
    /\ sec \in {OwnerNoor, OwnerAhmad, OwnerBoth}

\* CHECK(owner IN (...)) and REFERENCES projects(id) of table contributions
contributionsCheck(pid, owner) ==
    /\ owner \in {OwnerNoor, OwnerAhmad}
    /\ pid \in IDs
    /\ projects[pid] # NoProject

WriteOK == [op |-> "write", err |-> "nil"]

WriteFailed == [op |-> "write", err |-> "constraint failed"]

\* qProjectInsert
CreateProject(rev, st, sec, stripe) ==
    /\ ret = NoRet
    /\ nextID <= MaxProjects
    /\ IF projectsCheck(st, sec)
       THEN /\ projects' = [projects EXCEPT ![nextID] = Project(rev, st, sec, stripe)]
            /\ nextID' = nextID + 1
            /\ ret' = WriteOK
       ELSE /\ ret' = WriteFailed
            /\ UNCHANGED <<projects, nextID>>
    /\ UNCHANGED <<contributions, writeFrame>>

\* qProjectUpdate
UpdateProject(id, rev, st, sec, stripe) ==
    /\ ret = NoRet
    /\ IF projects[id] = NoProject
       THEN ret' = WriteOK /\ UNCHANGED projects
       ELSE IF projectsCheck(st, sec)
       THEN /\ projects' = [projects EXCEPT ![id] = Project(rev, st, sec, stripe)]
            /\ ret' = WriteOK
       ELSE ret' = WriteFailed /\ UNCHANGED projects
    /\ UNCHANGED <<contributions, nextID, writeFrame>>

\* UPDATE ... SET revenue = revenue + ?
UpdateProjectStatusAddRevenue(id, st, rev, stripe) ==
    /\ ret = NoRet
    /\ IF projects[id] = NoProject
       THEN ret' = WriteOK /\ UNCHANGED projects
       ELSE IF projectsCheck(st, projects[id].SecuredBy)
       THEN /\ projects' = [projects EXCEPT ![id].Status = st,
                                            ![id].Revenue = FAdd(@, rev),
                                            ![id].StripePaymentID = stripe]
            /\ ret' = WriteOK
       ELSE ret' = WriteFailed /\ UNCHANGED projects
    /\ UNCHANGED <<contributions, nextID, writeFrame>>

\* qProjectUpdateStatus
UpdateProjectStatus(id, st, rev, stripe) ==
    /\ ret = NoRet
    /\ IF projects[id] = NoProject
       THEN ret' = WriteOK /\ UNCHANGED projects
       ELSE IF projectsCheck(st, projects[id].SecuredBy)
       THEN /\ projects' = [projects EXCEPT ![id].Status = st,
                                            ![id].Revenue = rev,
                                            ![id].StripePaymentID = stripe]
            /\ ret' = WriteOK
       ELSE ret' = WriteFailed /\ UNCHANGED projects
    /\ UNCHANGED <<contributions, nextID, writeFrame>>

\* qProjectDelete on a connection without foreign_keys(1): no cascade
DeleteProjectNoCascade(id) ==
    /\ ret = NoRet
    /\ projects' = [projects EXCEPT ![id] = NoProject]
    /\ ret' = WriteOK
    /\ UNCHANGED <<contributions, nextID, writeFrame>>

\* qProjectDelete, with ON DELETE CASCADE of contributions.project_id
DeleteProject(id) ==
    /\ ret = NoRet
    /\ projects' = [projects EXCEPT ![id] = NoProject]
    /\ contributions' = {c \in contributions : c.ProjectID # id}
    /\ ret' = WriteOK
    /\ UNCHANGED <<nextID, writeFrame>>

\* INSERT INTO contributions without the ON CONFLICT clause and without the
\* UNIQUE constraint it relies on
qContributionInsert(rows, c) == rows \cup {c}

\* qContributionUpsert: INSERT ... ON CONFLICT(project_id, owner) DO UPDATE
\* SET hours = excluded.hours, notes = excluded.notes, on the table rows
qContributionUpsert(rows, c) ==
    IF \E r \in rows : r.ProjectID = c.ProjectID /\ r.Owner = c.Owner
    THEN {IF r.ProjectID = c.ProjectID /\ r.Owner = c.Owner
          THEN [r EXCEPT !.Hours = c.Hours, !.Notes = c.Notes] ELSE r : r \in rows}
    ELSE rows \cup {c}

SetContribution(pid, owner, hours, notes) ==
    /\ ret = NoRet
    /\ IF ~contributionsCheck(pid, owner)
       THEN ret' = WriteFailed /\ UNCHANGED contributions
       ELSE /\ ret' = WriteOK
            /\ contributions' =
                   qContributionUpsert(contributions, Contribution(pid, owner, hours, notes))
    /\ UNCHANGED <<projects, nextID, writeFrame>>

(***************************************************************************)
(* Reads.  A SELECT without a total order returns its rows in any order;   *)
(* created_at has a resolution of one second, so ORDER BY created_at DESC  *)
(* leaves the order of projects open as well.                              *)
(***************************************************************************)
Orderings(S) ==
    {q \in [1 .. Cardinality(S) -> S] : \A i, j \in 1 .. Cardinality(S) : i # j => q[i] # q[j]}

Prefixes(q) == {SubSeq(q, 1, n) : n \in 0 .. Len(q)}

\* qProjectsByStatus: the ids of the rows, in the order returned
ListProjectsByStatus(status) ==
    Orderings({id \in IDs : projects[id] # NoProject /\ projects[id].Status = status})

\* qContributionByProject
GetContributions(projectID) ==
    Orderings({c \in contributions : c.ProjectID = projectID})

\* qMetricsTotalRevenue: COALESCE(SUM(revenue), 0) WHERE status = 'paid'
RECURSIVE SumRevenue(_)
SumRevenue(S) ==
    IF S = {} THEN F(0)
    ELSE LET id == CHOOSE x \in S : TRUE
         IN  FAdd(projects[id].Revenue, SumRevenue(S \ {id}))

qMetricsTotalRevenueAll ==
    SumRevenue({id \in IDs : projects[id] # NoProject})

qMetricsTotalRevenue ==
    SumRevenue({id \in IDs : projects[id] # NoProject /\ projects[id].Status = StatusPaid})

\* qMetricsOpenProjects: COUNT(*) WHERE status != 'paid'
qMetricsOpenProjectsNew ==
    Cardinality({id \in IDs : projects[id] # NoProject /\ projects[id].Status = StatusNew})

qMetricsOpenProjects ==
    Cardinality({id \in IDs : projects[id] # NoProject /\ projects[id].Status # StatusPaid})

(***************************************************************************)
(* store/metrics.go: GetMetrics, calcRevenueShares.                        *)
(***************************************************************************)
Metrics(total, noor, ahmad, open) ==
    [TotalRevenue |-> total, NoorShare |-> noor, AhmadShare |-> ahmad,
     OpenProjects |-> open]

NoMetrics == [TotalRevenue |-> "nil"]

\* one outcome of GetContributions(id): the rows read and whether it failed;
\* a failed query hands back the rows scanned before the failure
FetchOutcomes(id) ==
    {[rows |-> q, failed |-> FALSE] : q \in GetContributions(id)}
    \cup {[rows |-> pre, failed |-> TRUE] :
            pre \in UNION {Prefixes(q) : q \in GetContributions(id)}}

\* the loop with m.NoorShare = split.NoorShare in place of +=
RECURSIVE calcRevenueSharesAssign(_, _, _)
calcRevenueSharesAssign(m, paid, failedSoFar) ==
    IF paid = <<>> THEN {[m |-> m, ledgerFailed |-> failedSoFar]}
    ELSE LET id == Head(paid)
         IN  UNION {
               LET s == CalcRevenueSplit(projects[id], o.rows)
               IN  calcRevenueSharesAssign(
                       [m EXCEPT !.NoorShare = s.NoorShare,
                                 !.AhmadShare = s.AhmadShare],
                       Tail(paid),
                       IF o.failed THEN failedSoFar \cup {id} ELSE failedSoFar)
               : o \in FetchOutcomes(id)}

\* the loop of calcRevenueShares over paid: every [m, ledgerFailed] it can end
\* with, ledgerFailed being the projects whose GetContributions failed (the
\* error is dropped, the rows handed back are used)
RECURSIVE calcRevenueShares(_, _, _)
calcRevenueShares(m, paid, failedSoFar) ==
    IF paid = <<>> THEN {[m |-> m, ledgerFailed |-> failedSoFar]}
    ELSE LET id == Head(paid)
         IN  UNION {
               LET s == CalcRevenueSplit(projects[id], o.rows)
               IN  calcRevenueShares(
                       [m EXCEPT !.NoorShare = FAdd(@, s.NoorShare),
                                 !.AhmadShare = FAdd(@, s.AhmadShare)],
                       Tail(paid),
                       IF o.failed THEN failedSoFar \cup {id} ELSE failedSoFar)
               : o \in FetchOutcomes(id)}

GetMetricsFailed(why) ==
    [op |-> "GetMetrics", err |-> why, m |-> NoMetrics, ledgerFailed |-> {}]

\* every answer GetMetrics can give on the tables as they are
GetMetricsOutcomes ==
    {GetMetricsFailed(why) : why \in {"total revenue query failed",
                                      "open projects query failed",
                                      "paid projects query failed"}}
    \cup UNION {
         LET m0 == Metrics(qMetricsTotalRevenue, F(0), F(0), qMetricsOpenProjects)
         IN  {[op |-> "GetMetrics", err |-> "nil", m |-> r.m,
               ledgerFailed |-> r.ledgerFailed] : r \in calcRevenueShares(m0, paid, {})}
         : paid \in ListProjectsByStatus(StatusPaid)}

GetMetrics ==
    /\ ret = NoRet
    /\ ret' \in GetMetricsOutcomes
    /\ UNCHANGED <<projects, contributions, nextID, otherVars>>

(***************************************************************************)
(* The store: any sequence of calls, one at a time; ret holds the answer   *)
(* of the call in progress until the caller has taken it.                  *)
(***************************************************************************)
Return ==
    /\ ret # NoRet
    /\ ret' = NoRet
    /\ UNCHANGED <<projects, contributions, nextID, otherVars>>

Init ==
    /\ p = [Revenue |-> F(0), SecuredBy |-> OwnerBoth]
    /\ contribs = <<>>
    /\ split = NoSplit
    /\ divs = {}
    /\ projects = [i \in IDs |-> NoProject]
    /\ contributions = {}
    /\ nextID = 1
    /\ ret = NoRet
    /\ calls = NoCalls
    /\ legacy = NoLegacy

\* the statements that write, on inputs of the given sets
WriteOver(revs, sts, secs, hrs, notes) ==
    \/ \E rev \in revs, st \in sts, sec \in secs : CreateProject(rev, st, sec, "")
    \/ \E id \in IDs, rev \in revs, st \in sts, sec \in secs :
         UpdateProject(id, rev, st, sec, projects[id].StripePaymentID)
    \/ \E id \in IDs, rev \in revs, st \in sts : UpdateProjectStatus(id, st, rev, "")
    \/ \E id \in IDs : DeleteProject(id)
    \/ \E id \in IDs, owner \in {OwnerNoor, OwnerAhmad}, hours \in hrs, n \in notes :
         SetContribution(id, owner, hours, n)

NextOver(revs, sts, secs, hrs, notes) ==
    \/ WriteOver(revs, sts, secs, hrs, notes) /\ UNCHANGED calls
    \/ GetMetrics
    \/ Return

\* shares: paid and unpaid projects of every owner, with and without hours
RevenueInputs == {F(-50), F(0), F(100)}

SecuredByInputs == {OwnerNoor, OwnerAhmad, OwnerBoth}

HoursInputs == {F(0), F(3)}

Next ==
    NextOver(RevenueInputs, {StatusNew, StatusPaid}, SecuredByInputs, HoursInputs, {""})

Spec == Init /\ [][Next]_vars

\* counts: every status
NextStatus == NextOver(RevenueInputs, Statuses, {OwnerBoth}, {F(3)}, {""})

SpecStatus == Init /\ [][NextStatus]_vars

(***************************************************************************)
(* What a contribution list says about a collaborator.                     *)
(***************************************************************************)
Called == split # NoSplit

EntriesOf(cs, owner) == {i \in 1 .. Len(cs) : cs[i].Owner = owner}

HasPositive(cs, owner) == \E i \in EntriesOf(cs, owner) : cs[i].Hours.n > 0

NoneOrZero(cs, owner) == \A i \in EntriesOf(cs, owner) : cs[i].Hours = F(0)

OneEntryEach(cs) ==
    \A owner \in {OwnerNoor, OwnerAhmad} : Cardinality(EntriesOf(cs, owner)) <= 1

OneSided(cs) ==
    \/ HasPositive(cs, OwnerNoor) /\ NoneOrZero(cs, OwnerAhmad)
    \/ HasPositive(cs, OwnerAhmad) /\ NoneOrZero(cs, OwnerNoor)

BothPositive(cs) ==
    /\ OneEntryEach(cs)
    /\ HasPositive(cs, OwnerNoor)
    /\ HasPositive(cs, OwnerAhmad)

EntryHours(cs, owner) == cs[CHOOSE i \in EntriesOf(cs, owner) : TRUE].Hours

\* C1: whenever revenue > 0, the two shares CalcRevenueSplit returns add up
\* to the revenue, in the hours branch and in the owner branch alike.
C1_Conservation ==
    (Called /\ p.Revenue.n > 0)
        => FAdd(split.NoorShare, split.AhmadShare) = p.Revenue

C1_Witness ==
    /\ Called
    /\ p.Revenue = F(100)
    /\ split.Method = "hours"
    /\ split.NoorShare = [n |-> 100, d |-> 3]
    /\ split.AhmadShare = [n |-> 200, d |-> 3]

\* C2: with revenue > 0 and only one collaborator having hours > 0 (the other
\* has no entry or an entry of 0 hours) the result is the ownership split of
\* securedBy with method "owner": 50/50 for "both", never a 100/0 hours split.
C2_OneSidedUsesOwner ==
    (Called /\ p.Revenue.n > 0 /\ OneSided(contribs))
        => /\ split.Method = "owner"
           /\ split = splitByOwner(p)
           /\ p.SecuredBy = OwnerBoth
                => /\ FAdd(split.NoorShare, split.NoorShare) = p.Revenue
                   /\ split.AhmadShare = split.NoorShare

C2_Witness ==
    /\ Called
    /\ p = [Revenue |-> F(100), SecuredBy |-> OwnerBoth]
    /\ contribs = <<[Owner |-> OwnerNoor, Hours |-> F(2)]>>
    /\ split = RevenueSplit(F(50), F(50), "owner")

\* C3: with revenue > 0 and both collaborators having hours > 0 the result is
\* revenue*noorHours/(noorHours+ahmadHours), revenue*ahmadHours/(noorHours+
\* ahmadHours), method "hours", whatever securedBy is.
C3_HoursPrecedence ==
    (Called /\ p.Revenue.n > 0 /\ BothPositive(contribs))
        => LET nh == EntryHours(contribs, OwnerNoor)
               ah == EntryHours(contribs, OwnerAhmad)
           IN  /\ split.Method = "hours"
               /\ split.NoorShare = Norm(p.Revenue.n * nh.n, nh.n + ah.n)
               /\ split.AhmadShare = Norm(p.Revenue.n * ah.n, nh.n + ah.n)
               /\ \A s \in SecuredByVals :
                     CalcRevenueSplit([p EXCEPT !.SecuredBy = s], contribs) = split

C3_Witness ==
    /\ Called
    /\ p = [Revenue |-> F(100), SecuredBy |-> OwnerNoor]
    /\ contribs = <<[Owner |-> OwnerAhmad, Hours |-> F(1)],
                    [Owner |-> OwnerNoor, Hours |-> F(2)]>>
    /\ split.Method = "hours"

\* C4: for revenue <= 0 the result is exactly 0, 0, "none", whatever the
\* logged hours and securedBy are.
C4_NoRevenueNoSplit ==
    (Called /\ p.Revenue.n <= 0) => split = RevenueSplit(F(0), F(0), "none")

C4_Witness ==
    /\ Called
    /\ p.Revenue = F(0)
    /\ BothPositive(contribs)
    /\ split.Method = "none"

\* C5: with revenue > 0 and the hours rule not applying, the method is
\* "owner" and the shares are (revenue, 0) for noor, (0, revenue) for ahmad
\* and (revenue/2, revenue/2) for both and for any other value of securedBy.
C5_OwnershipFallback ==
    (Called /\ p.Revenue.n > 0 /\ split.Method # "hours")
        => /\ split.Method = "owner"
           /\ p.SecuredBy = OwnerNoor
                => split.NoorShare = p.Revenue /\ split.AhmadShare = F(0)
           /\ p.SecuredBy = OwnerAhmad
                => split.NoorShare = F(0) /\ split.AhmadShare = p.Revenue
           /\ p.SecuredBy \notin {OwnerNoor, OwnerAhmad}
                => /\ split.NoorShare = Norm(p.Revenue.n, 2 * p.Revenue.d)
                   /\ split.AhmadShare = Norm(p.Revenue.n, 2 * p.Revenue.d)

C5_Witness ==
    /\ Called
    /\ p = [Revenue |-> F(1), SecuredBy |-> OwnerOther]
    /\ split = RevenueSplit([n |-> 1, d |-> 2], [n |-> 1, d |-> 2], "owner")

\* C6: every call returns a RevenueSplit of finite shares and a known method,
\* and every divisor it evaluates is strictly positive.
C6_Total ==
    Called
        => /\ IsFinite(split.NoorShare)
           /\ IsFinite(split.AhmadShare)
           /\ split.Method \in {"none", "hours", "owner"}
           /\ \A d \in divs : d.n > 0 /\ d.d > 0

C6_Witness ==
    /\ Called
    /\ p = [Revenue |-> F(100), SecuredBy |-> OwnerOther]
    /\ contribs = <<[Owner |-> OwnerNoor, Hours |-> F(0)],
                    [Owner |-> OwnerAhmad, Hours |-> F(0)]>>
    /\ divs = {}
    /\ split.Method = "owner"

(***************************************************************************)
(* What the stored rows say.                                               *)
(***************************************************************************)
Returned == ret.op = "GetMetrics" /\ ret.err = "nil"

PaidIDs == {id \in IDs : projects[id] # NoProject /\ projects[id].Status = StatusPaid}

StoredContributions(id) == CHOOSE q \in GetContributions(id) : TRUE

StoredSplit(id) == CalcRevenueSplit(projects[id], StoredContributions(id))

RECURSIVE SumOver(_, _)
SumOver(S, share) ==
    IF S = {} THEN F(0)
    ELSE LET id == CHOOSE x \in S : TRUE
         IN  FAdd(StoredSplit(id)[share], SumOver(S \ {id}, share))

\* C7: when fetching the contributions of a paid project fails during
\* GetMetrics, the call returns that failure and no Metrics value.
C7_LedgerFailureAborts ==
    (ret.op = "GetMetrics" /\ ret.ledgerFailed # {})
        => ret.err = "ledger unavailable" /\ ret.m = NoMetrics

\* C8: the shares GetMetrics returns are the sums, over the paid projects, of
\* the split of each project with its stored contributions.
C8_ShareAggregation ==
    Returned
        => /\ ret.m.NoorShare = SumOver(PaidIDs, "NoorShare")
           /\ ret.m.AhmadShare = SumOver(PaidIDs, "AhmadShare")

RECURSIVE PaidRevenueUpTo(_)
PaidRevenueUpTo(i) ==
    IF i = 0 THEN 0
    ELSE PaidRevenueUpTo(i - 1)
         + (IF projects[i] # NoProject /\ projects[i].Status = "paid"
            THEN projects[i].Revenue.n ELSE 0)

\* C9: the TotalRevenue GetMetrics returns is the sum of the revenue of the
\* paid projects, 0 when there is none; a project that is not paid adds
\* nothing, whatever its revenue.
C9_TotalRevenue ==
    Returned => ret.m.TotalRevenue = F(PaidRevenueUpTo(MaxProjects))

C9_Witness ==
    /\ Returned
    /\ \E i, j \in IDs :
         /\ projects[i] # NoProject /\ projects[j] # NoProject
         /\ projects[i].Status = "paid" /\ projects[i].Revenue = F(100)
         /\ projects[j].Status = "done" /\ projects[j].Revenue = F(100)
    /\ ret.m.TotalRevenue = F(100)

\* C10: the OpenProjects GetMetrics returns is the number of stored projects
\* whose status is new, in_progress or done; paid projects never count.
C10_OpenProjects ==
    Returned
        => ret.m.OpenProjects =
             Cardinality({id \in IDs : /\ projects[id] # NoProject
                                       /\ projects[id].Status \in
                                            {"new", "in_progress", "done"}})

C10_Witness ==
    /\ Returned
    /\ \E i, j \in IDs :
         /\ projects[i] # NoProject /\ projects[j] # NoProject
         /\ projects[i].Status = "paid"
         /\ projects[j].Status = "in_progress"
    /\ ret.m.OpenProjects = 1

(***************************************************************************)
(* store/metrics.go, GetMetrics query by query.  The handlers run one      *)
(* goroutine per request on one *sql.DB, and GetMetrics opens no           *)
(* transaction: between two of its queries another request may write.      *)
(* Every query of the call succeeds here.                                  *)
(***************************************************************************)
\* the Metrics of the tables as they are
MetricsOfStore ==
    Metrics(qMetricsTotalRevenue, SumOver(PaidIDs, "NoorShare"),
            SumOver(PaidIDs, "AhmadShare"), qMetricsOpenProjects)

\* the call c has lived through the tables as they are: during keeps the
\* Metrics of every such state, recorded by each step that finds the state
During(c) == [c EXCEPT !.during = @ \cup {MetricsOfStore}]

\* m := &Metrics{}
GetMetricsBegin(r) ==
    /\ calls[r] = Idle
    /\ calls' = [calls EXCEPT ![r] =
                    [pc |-> "total revenue", m |-> Metrics(F(0), F(0), F(0), 0),
                     paid |-> <<>>, during |-> {MetricsOfStore}]]
    /\ UNCHANGED <<storeVars, writeFrame>>

\* db.QueryRow(qMetricsTotalRevenue).Scan(&m.TotalRevenue)
GetMetricsTotalRevenue(r) ==
    /\ calls[r].pc = "total revenue"
    /\ calls' = [calls EXCEPT ![r] = [During(@) EXCEPT
                                         !.m.TotalRevenue = qMetricsTotalRevenue,
                                         !.pc = "open projects"]]
    /\ UNCHANGED <<storeVars, writeFrame>>

\* db.QueryRow(qMetricsOpenProjects).Scan(&m.OpenProjects)
GetMetricsOpenProjects(r) ==
    /\ calls[r].pc = "open projects"
    /\ calls' = [calls EXCEPT ![r] = [During(@) EXCEPT
                                         !.m.OpenProjects = qMetricsOpenProjects,
                                         !.pc = "paid projects"]]
    /\ UNCHANGED <<storeVars, writeFrame>>

\* paid, err := db.ListProjectsByStatus(StatusPaid): the rows as scanned
GetMetricsListPaid(r) ==
    /\ calls[r].pc = "paid projects"
    /\ \E paid \in ListProjectsByStatus(StatusPaid) :
         calls' = [calls EXCEPT ![r] = [During(@) EXCEPT
                      !.paid = [i \in 1 .. Len(paid) |->
                                  [ID |-> paid[i], row |-> projects[paid[i]]]],
                      !.pc = "shares"]]
    /\ UNCHANGED <<storeVars, writeFrame>>

\* one turn of the loop of calcRevenueShares
GetMetricsShare(r) ==
    /\ calls[r].pc = "shares"
    /\ calls[r].paid # <<>>
    /\ \E rows \in GetContributions(Head(calls[r].paid).ID) :
         LET s == CalcRevenueSplit(Head(calls[r].paid).row, rows)
         IN  calls' = [calls EXCEPT ![r] = [During(@) EXCEPT
                          !.m.NoorShare = FAdd(@, s.NoorShare),
                          !.m.AhmadShare = FAdd(@, s.AhmadShare),
                          !.paid = Tail(@)]]
    /\ UNCHANGED <<storeVars, writeFrame>>

\* return m, nil
GetMetricsDone(r) ==
    /\ calls[r].pc = "shares"
    /\ calls[r].paid = <<>>
    /\ calls' = [calls EXCEPT ![r] = [During(@) EXCEPT !.pc = "returned"]]
    /\ UNCHANGED <<storeVars, writeFrame>>

\* the request is over
GetMetricsEnd(r) ==
    /\ calls[r].pc = "returned"
    /\ calls' = [calls EXCEPT ![r] = Idle]
    /\ UNCHANGED <<storeVars, writeFrame>>

\* a write of another request, on the state the calls in progress have
\* lived through before it
WriteDuring ==
    /\ WriteOver({F(100)}, {StatusNew, StatusPaid}, {OwnerNoor}, {F(3)}, {""})
    /\ calls' = [r \in Requests |-> IF calls[r] = Idle THEN Idle ELSE During(calls[r])]

NextConc ==
    \/ WriteDuring
    \/ Return
    \/ \E r \in Requests :
         \/ GetMetricsBegin(r)
         \/ GetMetricsTotalRevenue(r)
         \/ GetMetricsOpenProjects(r)
         \/ GetMetricsListPaid(r)
         \/ GetMetricsShare(r)
         \/ GetMetricsDone(r)
         \/ GetMetricsEnd(r)

\* the empty tables after the projects created first have been deleted again:
\* one project id is left to hand out
InitConc ==
    /\ p = [Revenue |-> F(0), SecuredBy |-> OwnerBoth]
    /\ contribs = <<>>
    /\ split = NoSplit
    /\ divs = {}
    /\ projects = [i \in IDs |-> NoProject]
    /\ contributions = {}
    /\ nextID = MaxProjects
    /\ ret = NoRet
    /\ calls = NoCalls
    /\ legacy = NoLegacy

SpecConc == InitConc /\ [][NextConc]_vars

\* C11: every Metrics a GetMetrics call returns, whatever writes and other
\* GetMetrics calls run at the same time, is the Metrics of one state the
\* tables were in during the call.
C11_AtomicSnapshot ==
    \A r \in Requests :
        calls[r].pc = "returned" => calls[r].m \in calls[r].during

(***************************************************************************)
(* store/contributions.go: the contributions of a project, with notes.     *)
(* Every statement of package store is one SQL statement, which SQLite     *)
(* runs alone: an interleaving of calls is a sequence of them.             *)
(***************************************************************************)
NotesInputs == {"", "n"}

NextContrib == NextOver({F(100)}, {StatusPaid}, {OwnerBoth}, HoursInputs, NotesInputs)

SpecContrib == Init /\ [][NextContrib]_vars

RowOf(pid, owner) == {c \in contributions : c.ProjectID = pid /\ c.Owner = owner}

\* C12: whatever calls of SetContribution, CreateProject, UpdateProject and
\* DeleteProject have run, no two contribution rows have the same project and
\* owner; and a SetContribution for a project and owner that have a row puts
\* its hours and notes into that row and adds none.
C12_OneRowPerOwner ==
    /\ [](\A pid \in IDs, owner \in Owners : Cardinality(RowOf(pid, owner)) <= 1)
    /\ [][\A pid \in IDs, owner \in {OwnerNoor, OwnerAhmad},
             hours \in HoursInputs, n \in NotesInputs :
            (SetContribution(pid, owner, hours, n) /\ RowOf(pid, owner) # {})
                => /\ Cardinality(contributions') = Cardinality(contributions)
                   /\ Contribution(pid, owner, hours, n) \in contributions'
                   /\ \A c \in contributions :
                        (c.ProjectID # pid \/ c.Owner # owner) => c \in contributions']_vars

C12_Witness ==
    /\ ret = WriteOK
    /\ \E pid \in IDs :
         /\ RowOf(pid, OwnerNoor) = {Contribution(pid, OwnerNoor, F(0), "n")}
         /\ RowOf(pid, OwnerAhmad) = {Contribution(pid, OwnerAhmad, F(3), "")}

\* C13: whatever the revenue, securedBy and logged hours (negative and zero
\* hours included), neither share CalcRevenueSplit returns is negative.
C13_SharesNotNegative ==
    Called
        => /\ IsFinite(split.NoorShare) /\ split.NoorShare.n >= 0
           /\ IsFinite(split.AhmadShare) /\ split.AhmadShare.n >= 0

C13_Witness ==
    /\ Called
    /\ p.Revenue = F(100)
    /\ \E i, j \in 1 .. Len(contribs) :
         /\ contribs[i].Owner = OwnerNoor /\ contribs[i].Hours = F(2)
         /\ contribs[j].Owner = OwnerAhmad /\ contribs[j].Hours = F(-1)
    /\ ExtractHours(contribs, OwnerAhmad) = F(-1)
    /\ split.Method = "owner"

(***************************************************************************)
(* db/sqlite.go, the earlier storage package: its tables, its writes, its  *)
(* split and its two readers of the split.  contributions is the table in  *)
(* rowid order; nothing keeps two rows of one project and person apart.    *)
(***************************************************************************)
StatusPending == "pending"

\* stripe_payment_id of a row CreateProject has inserted: the column is not
\* in the INSERT and has no default
NULL == "NULL"

dbProject(rev, st, sec, stripe) ==
    [Revenue |-> rev, Status |-> st, SecuredBy |-> sec, StripePaymentID |-> stripe]

dbContribution(pid, person, hours) ==
    [ProjectID |-> pid, Person |-> person, Hours |-> hours]

\* CHECK(secured_by IN (...)) and CHECK(status IN (...)) of table projects
dbProjectsCheck(st, sec) ==
    /\ st \in {StatusPending, StatusPaid, StatusDone}
    /\ sec \in {OwnerNoor, OwnerAhmad, OwnerBoth}

dbFrame == <<p, contribs, split, divs, projects, contributions, nextID, ret>>

dbCreateProject(rev, st, sec) ==
    /\ legacy.nextID <= MaxProjects
    /\ dbProjectsCheck(st, sec)
    /\ legacy' = [legacy EXCEPT
                     !.projects[legacy.nextID] = dbProject(rev, st, sec, NULL),
                     !.nextID = @ + 1]
    /\ UNCHANGED <<dbFrame, calls>>

dbUpdateProjectStatus(id, st, rev, stripe) ==
    /\ legacy.projects[id] # NoProject
    /\ dbProjectsCheck(st, legacy.projects[id].SecuredBy)
    /\ legacy' = [legacy EXCEPT !.projects[id].Status = st,
                                !.projects[id].Revenue = rev,
                                !.projects[id].StripePaymentID = stripe]
    /\ UNCHANGED <<dbFrame, calls>>

\* DELETE FROM projects, with ON DELETE CASCADE of contributions.project_id
dbDeleteProject(id) ==
    /\ legacy.projects[id] # NoProject
    /\ legacy' = [legacy EXCEPT
                     !.projects[id] = NoProject,
                     !.contributions = SelectSeq(@, LAMBDA c : c.ProjectID # id)]
    /\ UNCHANGED <<dbFrame, calls>>

\* SetContribution, first statement: DELETE ... WHERE project_id = ? AND person = ?
dbSetContributionDelete(r, pid, person, hours) ==
    /\ calls[r] = Idle
    /\ legacy' = [legacy EXCEPT !.contributions =
                     SelectSeq(@, LAMBDA c : ~(c.ProjectID = pid /\ c.Person = person))]
    /\ calls' = [calls EXCEPT ![r] =
                    [pc |-> "insert", projectID |-> pid, person |-> person, hours |-> hours]]
    /\ UNCHANGED dbFrame

\* SetContribution, second statement: if hours > 0 { INSERT }; the insert
\* fails on a project that is gone (FOREIGN KEY)
dbSetContributionInsert(r) ==
    /\ calls[r].pc = "insert"
    /\ IF FGt0(calls[r].hours) /\ legacy.projects[calls[r].projectID] # NoProject
       THEN legacy' = [legacy EXCEPT !.contributions =
                          Append(@, dbContribution(calls[r].projectID, calls[r].person,
                                                   calls[r].hours))]
       ELSE UNCHANGED legacy
    /\ calls' = [calls EXCEPT ![r] = Idle]
    /\ UNCHANGED dbFrame

\* GetContributionsByProject
GetContributionsByProject(projectID) ==
    SelectSeq(legacy.contributions, LAMBDA c : c.ProjectID = projectID)

\* the loops noorHours += c.Hours / ahmadHours += c.Hours of calculateSplit
RECURSIVE dbSumHours(_, _)
dbSumHours(cs, forNoor) ==
    IF cs = <<>> THEN F(0)
    ELSE FAdd(dbSumHours(Tail(cs), forNoor),
              IF (Head(cs).Person = OwnerNoor) = forNoor THEN Head(cs).Hours ELSE F(0))

calculateSplit(proj, cs) ==
    LET noorHours == dbSumHours(cs, TRUE)
        ahmadHours == dbSumHours(cs, FALSE)
        totalHours == FAdd(noorHours, ahmadHours)
    IN  IF FLe0(proj.Revenue) THEN RevenueSplit(F(0), F(0), "none")
        ELSE IF Len(cs) > 0 /\ FGt0(totalHours)
             THEN RevenueSplit(FMul(proj.Revenue, FDiv(noorHours, totalHours)),
                               FMul(proj.Revenue, FDiv(ahmadHours, totalHours)), "hours")
             ELSE splitByOwner(proj)

\* a row whose stripe_payment_id is NULL does not scan into Project
dbScans(id) == legacy.projects[id].StripePaymentID # NULL

dbIDs == {id \in IDs : legacy.projects[id] # NoProject}

dbPaidIDs == {id \in dbIDs : legacy.projects[id].Status = StatusPaid}

\* GetProjectFull: nil for no row, the scan error, or the split of the
\* project with its stored contributions
GetProjectFull(id) ==
    IF legacy.projects[id] = NoProject THEN [err |-> "nil", found |-> FALSE]
    ELSE IF ~dbScans(id) THEN [err |-> "scan", found |-> FALSE]
    ELSE [err |-> "nil", found |-> TRUE,
          Split |-> calculateSplit(legacy.projects[id], GetContributionsByProject(id))]

\* the loop of GetDashboardStats over the paid projects
RECURSIVE dbShares(_)
dbShares(S) ==
    IF S = {} THEN [NoorShare |-> F(0), AhmadShare |-> F(0)]
    ELSE LET id == CHOOSE x \in S : TRUE
             s == calculateSplit(legacy.projects[id], <<>>)
             rest == dbShares(S \ {id})
         IN  [NoorShare |-> FAdd(rest.NoorShare, s.NoorShare),
              AhmadShare |-> FAdd(rest.AhmadShare, s.AhmadShare)]

\* GetDashboardStats: SUM(...) over no row is NULL and does not scan; a paid
\* row with a NULL stripe_payment_id fails ListProjectsByStatus
GetDashboardStats ==
    IF dbIDs = {} \/ \E id \in dbPaidIDs : ~dbScans(id) THEN [err |-> "scan"]
    ELSE [err |-> "nil", NoorShare |-> dbShares(dbPaidIDs).NoorShare,
          AhmadShare |-> dbShares(dbPaidIDs).AhmadShare]

NextLegacy ==
    \/ \E st \in {StatusPending, StatusPaid} : dbCreateProject(F(100), st, OwnerNoor)
    \/ \E id \in IDs : dbUpdateProjectStatus(id, StatusPaid, F(100), "pi_1")
    \/ \E id \in IDs : dbDeleteProject(id)
    \/ \E r \in Requests, id \in IDs, person \in {OwnerNoor, OwnerAhmad},
          hours \in HoursInputs : dbSetContributionDelete(r, id, person, hours)
    \/ \E r \in Requests : dbSetContributionInsert(r)

SpecLegacy == Init /\ [][NextLegacy]_vars

\* the sums, over the paid projects, of the Split GetProjectFull returns
RECURSIVE dbSumFull(_, _)
dbSumFull(S, share) ==
    IF S = {} THEN F(0)
    ELSE LET id == CHOOSE x \in S : TRUE
         IN  FAdd(GetProjectFull(id).Split[share], dbSumFull(S \ {id}, share))

\* C15: in package db, whatever is stored, the NoorShare and AhmadShare that
\* GetDashboardStats returns are the sums, over the paid projects, of the
\* shares of the Split GetProjectFull returns for each of them.
C15_DashboardUsesDetailSplit ==
    GetDashboardStats.err = "nil"
        => /\ GetDashboardStats.NoorShare = dbSumFull(dbPaidIDs, "NoorShare")
           /\ GetDashboardStats.AhmadShare = dbSumFull(dbPaidIDs, "AhmadShare")

dbRowsOf(pid, person) ==
    SelectSeq(legacy.contributions, LAMBDA c : c.ProjectID = pid /\ c.Person = person)

\* C18: in package db, once the concurrent SetContribution calls for a
\* project and person have all returned, however their statements were
\* interleaved, the table holds at most one row for that project and person
\* (so calculateSplit sums no duplicate rows).
C18_LegacyOneRowPerPerson ==
    (\A r \in Requests : calls[r] = Idle)
        => \A pid \in IDs, person \in {OwnerNoor, OwnerAhmad} :
              Len(dbRowsOf(pid, person)) <= 1

\* the Metrics GetMetrics arrives at when it is handed the paid projects in the
\* order paid and every fetch succeeds, over every order of the fetched rows
MetricsInOrder(paid) ==
    {r.m : r \in {o \in calcRevenueShares(
                     Metrics(qMetricsTotalRevenue, F(0), F(0), qMetricsOpenProjects),
                     paid, {}) : o.ledgerFailed = {}}}

\* the two orders of a contribution list with one entry per collaborator
ListsInOrder ==
    {<<[Owner |-> OwnerNoor, Hours |-> F(n)], [Owner |-> OwnerAhmad, Hours |-> F(a)]>> :
        n \in HoursVals, a \in HoursVals}

Swap(cs) == <<cs[2], cs[1]>>

\* C16: the Metrics GetMetrics computes are the same for every order in which
\* the paid projects and their contribution rows are read, and the split of a
\* project is the same for both orders of a contribution list that has one
\* entry per collaborator.
C16_OrderIndependent ==
    /\ Cardinality(UNION {MetricsInOrder(paid) :
                             paid \in ListProjectsByStatus(StatusPaid)}) = 1
    /\ \A id \in IDs : projects[id] # NoProject =>
          \A cs \in ListsInOrder :
             CalcRevenueSplit(projects[id], cs) = CalcRevenueSplit(projects[id], Swap(cs))

C16_Witness ==
    /\ Returned /\ ret.ledgerFailed = {}
    /\ PaidIDs = IDs
    /\ \E i, j \in IDs :
         /\ StoredSplit(i) = RevenueSplit(F(100), F(0), "owner")
         /\ StoredSplit(j) = RevenueSplit(F(50), F(50), "hours")
         /\ Len(StoredContributions(j)) = 2
    /\ ret.m.NoorShare = F(150)
    /\ ret.m.AhmadShare = F(50)

(***************************************************************************)
(* The callers of the store: handlers/forms.go, saveContributions; and a   *)
(* caller that asks for the Metrics twice in a row.                        *)
(***************************************************************************)
ParsedForm(noorHours, ahmadHours) == [NoorHours |-> noorHours, AhmadHours |-> ahmadHours]

Nil == [ProjectID |-> "nil"]

\* ParsedForm.contribution: nil unless hours > 0
contribution(f, owner, projectID) ==
    LET hours == IF owner = OwnerAhmad THEN f.AhmadHours ELSE f.NoorHours
    IN  IF FLe0(hours) THEN Nil ELSE Contribution(projectID, owner, hours, "")

\* the contributions saveContributions hands to SetContribution, in its order
ToSave(f, projectID) ==
    SelectSeq(<<contribution(f, OwnerNoor, projectID),
                contribution(f, OwnerAhmad, projectID)>>, LAMBDA c : c # Nil)

RECURSIVE UpsertAll(_, _)
UpsertAll(rows, cs) ==
    IF cs = <<>> THEN rows ELSE UpsertAll(qContributionUpsert(rows, Head(cs)), Tail(cs))

\* ParsedForm.saveContributions: the first SetContribution that fails ends it;
\* the rows of one project fail together (the project is not there)
saveContributions(f, projectID) ==
    /\ ret = NoRet
    /\ IF ToSave(f, projectID) # <<>> /\ ~contributionsCheck(projectID, OwnerNoor)
       THEN /\ ret' = [op |-> "saveContributions", err |-> "constraint failed",
                       f |-> f, projectID |-> projectID]
            /\ UNCHANGED contributions
       ELSE /\ ret' = [op |-> "saveContributions", err |-> "nil",
                       f |-> f, projectID |-> projectID]
            /\ contributions' = UpsertAll(contributions, ToSave(f, projectID))
    /\ UNCHANGED <<projects, nextID, otherVars>>

\* GetMetrics, and GetMetrics again before anything is written
GetMetricsTwice ==
    /\ ret = NoRet
    /\ \E r1 \in GetMetricsOutcomes, r2 \in GetMetricsOutcomes :
         ret' = [op |-> "GetMetrics twice", first |-> r1, second |-> r2]
    /\ UNCHANGED <<projects, contributions, nextID, otherVars>>

NextCallers ==
    \/ NextOver({F(100)}, {StatusPaid}, {OwnerNoor}, HoursInputs, {""})
    \/ \E n \in HoursInputs, a \in HoursInputs, id \in IDs :
         saveContributions(ParsedForm(n, a), id)
    \/ GetMetricsTwice

SpecCallers == Init /\ [][NextCallers]_vars

\* C17: GetMetrics writes nothing and keeps nothing: two calls in a row, with
\* no write in between, that both return Metrics return equal Metrics (the
\* value depends only on the stored projects and contributions).
C17_SameStoreSameMetrics ==
    (ret.op = "GetMetrics twice" /\ ret.first.err = "nil" /\ ret.second.err = "nil")
        => ret.first.m = ret.second.m

\* the hours stored for a collaborator of a project, 0 when there is no row
StoredHours(pid, owner) ==
    IF RowOf(pid, owner) = {} THEN F(0)
    ELSE (CHOOSE c \in RowOf(pid, owner) : TRUE).Hours

\* C20: once saveContributions has returned nil, the hours stored for noor and
\* for ahmad on the project are the NoorHours and AhmadHours of the form,
\* whatever was stored before.
C20_FormHoursStored ==
    (ret.op = "saveContributions" /\ ret.err = "nil")
        => /\ StoredHours(ret.projectID, OwnerNoor) = ret.f.NoorHours
           /\ StoredHours(ret.projectID, OwnerAhmad) = ret.f.AhmadHours

(***************************************************************************)
(* handlers/web.go, UpdateProject, and handlers/stripe.go,                 *)
(* handlePaymentIntentSucceeded, statement by statement: two requests on   *)
(* the same store.                                                         *)
(***************************************************************************)
\* GetProject: the row, or nil
GetProject(id) == IF id \in IDs THEN projects[id] ELSE NoProject

\* GetProjectByStripeID: the ids of the rows QueryRow can hand back
GetProjectByStripeID(stripeID) ==
    {id \in IDs : projects[id] # NoProject /\ projects[id].StripePaymentID = stripeID}

\* Handler.UpdateProject up to p, err := h.DB.GetProject(id): 404 on no row
UpdateProjectRead(r, id, f) ==
    /\ calls[r] = Idle
    /\ calls' = [calls EXCEPT ![r] =
                    IF GetProject(id) = NoProject
                    THEN [pc |-> "done", op |-> "UpdateProject", id |-> id, status |-> 404]
                    ELSE [pc |-> "update", op |-> "UpdateProject", id |-> id,
                          p |-> GetProject(id), f |-> f, was |-> StoredSplit(id).Method]]
    /\ UNCHANGED <<storeVars, writeFrame>>

\* p.SecuredBy, p.Status, p.Revenue = the form's; h.DB.UpdateProject(p)
UpdateProjectWrite(r) ==
    /\ calls[r].pc = "update"
    /\ UpdateProject(calls[r].id, calls[r].f.Revenue, calls[r].f.Status,
                     calls[r].f.SecuredBy, calls[r].p.StripePaymentID)
    /\ calls' = [calls EXCEPT ![r] =
                    IF ret'.err = "nil" THEN [@ EXCEPT !.pc = "noor hours"]
                    ELSE [pc |-> "done", op |-> "UpdateProject", id |-> @.id, status |-> 500]]

\* the two calls guarded by hours > 0, as Handler.CreateProject has them
UpdateProjectHoursIfPositive(r) ==
    /\ \/ /\ calls[r].pc = "noor hours"
          /\ IF FGt0(calls[r].f.NoorHours)
             THEN SetContribution(calls[r].id, OwnerNoor, calls[r].f.NoorHours, "")
             ELSE ret = NoRet /\ UNCHANGED <<storeVars, writeFrame>>
          /\ calls' = [calls EXCEPT ![r].pc = "ahmad hours"]
       \/ /\ calls[r].pc = "ahmad hours"
          /\ IF FGt0(calls[r].f.AhmadHours)
             THEN SetContribution(calls[r].id, OwnerAhmad, calls[r].f.AhmadHours, "")
             ELSE ret = NoRet /\ UNCHANGED <<storeVars, writeFrame>>
          /\ calls' = [calls EXCEPT ![r] =
                          [pc |-> "done", op |-> "UpdateProject", id |-> @.id,
                           status |-> 200, f |-> @.f, was |-> @.was]]

\* h.DB.SetContribution(noor) and h.DB.SetContribution(ahmad), errors dropped;
\* h.Dashboard only reads.  was is the method the project split by when the
\* request began
UpdateProjectHours(r) ==
    /\ \/ /\ calls[r].pc = "noor hours"
          /\ SetContribution(calls[r].id, OwnerNoor, calls[r].f.NoorHours, "")
          /\ calls' = [calls EXCEPT ![r].pc = "ahmad hours"]
       \/ /\ calls[r].pc = "ahmad hours"
          /\ SetContribution(calls[r].id, OwnerAhmad, calls[r].f.AhmadHours, "")
          /\ calls' = [calls EXCEPT ![r] =
                          [pc |-> "done", op |-> "UpdateProject", id |-> @.id,
                           status |-> 200, f |-> @.f, was |-> @.was]]

\* a payment_intent.succeeded event
PaymentIntent(id, received, amount, projectID) ==
    [ID |-> id, AmountReceived |-> received, Amount |-> amount, project_id |-> projectID]

\* the metadata's project_id before the stripe_payment_id
PaymentCandidatesMetadataFirst(pi) ==
    IF GetProject(pi.project_id) # NoProject THEN {pi.project_id}
    ELSE IF pi.ID # "" /\ GetProjectByStripeID(pi.ID) # {}
    THEN GetProjectByStripeID(pi.ID)
    ELSE {pi.project_id}

\* the ids handlePaymentIntentSucceeded can end up with: by
\* stripe_payment_id first, by the metadata's project_id when that gave nil
PaymentCandidates(pi) ==
    IF pi.ID # "" /\ GetProjectByStripeID(pi.ID) # {}
    THEN GetProjectByStripeID(pi.ID)
    ELSE {pi.project_id}

\* handlePaymentIntentSucceeded up to the project it has found
PaymentLookup(r, pi) ==
    /\ calls[r] = Idle
    /\ \E id \in PaymentCandidates(pi) :
         calls' = [calls EXCEPT ![r] =
                      IF GetProject(id) = NoProject
                      THEN [pc |-> "done", op |-> "payment", id |-> id, pi |-> pi,
                            found |-> FALSE]
                      ELSE [pc |-> "mark paid", op |-> "payment", id |-> id, pi |-> pi,
                            found |-> TRUE]]
    /\ UNCHANGED <<storeVars, writeFrame>>

\* amount / 100 whatever amount_received is
PaymentRevenueAmountOnly(pi) == FDiv(F(pi.Amount), F(100))

\* cents to dollars, amount_received first
PaymentRevenue(pi) ==
    IF FLe0(FDiv(F(pi.AmountReceived), F(100))) THEN FDiv(F(pi.Amount), F(100))
    ELSE FDiv(F(pi.AmountReceived), F(100))

\* h.DB.UpdateProjectStatus(project.ID, StatusPaid, revenue, pi.ID)
PaymentMarkPaid(r) ==
    /\ calls[r].pc = "mark paid"
    /\ UpdateProjectStatus(calls[r].id, StatusPaid, PaymentRevenue(calls[r].pi),
                           calls[r].pi.ID)
    /\ calls' = [calls EXCEPT ![r].pc = "done"]

\* the response is out
RequestEnd(r) ==
    /\ calls[r].pc = "done"
    /\ calls' = [calls EXCEPT ![r] = Idle]
    /\ UNCHANGED <<storeVars, writeFrame>>

FormInputs ==
    [Revenue : {F(100)}, Status : {StatusNew, StatusDone}, SecuredBy : {OwnerNoor},
     NoorHours : HoursInputs, AhmadHours : {F(3)}]

PaymentInputs == {PaymentIntent("pi_1", received, 20000, id) :
                     received \in {0, 15000}, id \in IDs}

NextRace ==
    \/ CreateProject(F(100), StatusNew, OwnerNoor, "") /\ UNCHANGED calls
    \/ Return
    \/ \E r \in Requests :
         \/ \E id \in IDs, f \in FormInputs : UpdateProjectRead(r, id, f)
         \/ UpdateProjectWrite(r)
         \/ UpdateProjectHours(r)
         \/ \E pi \in PaymentInputs : PaymentLookup(r, pi)
         \/ PaymentMarkPaid(r)
         \/ RequestEnd(r)

SpecRace == InitConc /\ [][NextRace]_vars

\* C19: when an UpdateProject request and a payment_intent.succeeded webhook
\* for the same project have both completed, however their statements were
\* interleaved, the project's stripe_payment_id is the id of the payment.
C19_PaymentKept ==
    \A r, w \in Requests :
        (/\ calls[r].pc = "done" /\ calls[r].op = "UpdateProject" /\ calls[r].status = 200
         /\ calls[w].pc = "done" /\ calls[w].op = "payment" /\ calls[w].found
         /\ calls[r].id = calls[w].id)
            => projects[calls[r].id].StripePaymentID = calls[w].pi.ID

(***************************************************************************)
(* The handlers one request at a time: each request runs to its end before *)
(* the next begins.                                                        *)
(***************************************************************************)
\* what a form can carry: values outside the enumerations included
FormsSubmitted ==
    [Revenue : {F(0), F(100)}, Status : {StatusNew, StatusPaid, "archived"},
     SecuredBy : {OwnerNoor, OwnerBoth, OwnerOther},
     NoorHours : HoursInputs, AhmadHours : HoursInputs]

NextForms ==
    \/ CreateProject(F(100), StatusNew, OwnerNoor, "") /\ UNCHANGED calls
    \/ Return
    \/ \E id \in IDs, f \in FormsSubmitted : UpdateProjectRead(1, id, f)
    \/ UpdateProjectWrite(1)
    \/ UpdateProjectHours(1)
    \/ RequestEnd(1)

SpecForms == InitConc /\ [][NextForms]_vars

\* an UpdateProject request has been answered 200
Updated == calls[1].pc = "done" /\ calls[1].op = "UpdateProject" /\ calls[1].status = 200

\* the rows of a project and collaborator all say these hours, and there is one
HoursAre(pid, owner, hours) ==
    RowOf(pid, owner) # {} /\ \A c \in RowOf(pid, owner) : c.Hours = hours

StatusesWritten == {StatusNew, StatusPaid, "archived"}

OwnersWritten == {OwnerNoor, OwnerAhmad, OwnerBoth, OwnerOther}

NextEnum ==
    \/ /\ \/ \E st \in StatusesWritten, sec \in OwnersWritten :
               CreateProject(F(100), st, sec, "")
          \/ \E id \in IDs, st \in StatusesWritten, sec \in OwnersWritten :
               UpdateProject(id, F(100), st, sec, projects[id].StripePaymentID)
          \/ \E id \in IDs, st \in StatusesWritten : UpdateProjectStatus(id, st, F(100), "")
          \/ \E id \in IDs, owner \in OwnersWritten : SetContribution(id, owner, F(3), "")
       /\ UNCHANGED calls
    \/ Return

SpecEnum == Init /\ [][NextEnum]_vars

\* every stored value is of its enumeration
EnumerationsClosed ==
    /\ \A id \in IDs : projects[id] # NoProject =>
          /\ projects[id].Status \in {"new", "in_progress", "done", "paid"}
          /\ projects[id].SecuredBy \in {"noor", "ahmad", "both"}
    /\ \A c \in contributions : c.Owner \in {"noor", "ahmad"}

Failed == ret'.err # "nil" /\ UNCHANGED <<projects, contributions, nextID>>

BadProject(st, sec) ==
    st \notin {"new", "in_progress", "done", "paid"} \/ sec \notin {"noor", "ahmad", "both"}

\* C22 as stated: every stored status, secured_by and owner is of its
\* enumeration, and a CreateProject, UpdateProject, UpdateProjectStatus or
\* SetContribution that carries another value fails and changes nothing.
C22_BadValueFails ==
    /\ []EnumerationsClosed
    /\ [][/\ \A st \in StatusesWritten, sec \in OwnersWritten :
               (BadProject(st, sec) /\ CreateProject(F(100), st, sec, "")) => Failed
          /\ \A id \in IDs, st \in StatusesWritten, sec \in OwnersWritten :
               (/\ BadProject(st, sec)
                /\ UpdateProject(id, F(100), st, sec, projects[id].StripePaymentID))
                  => Failed
          /\ \A id \in IDs, st \in StatusesWritten :
               (BadProject(st, "both") /\ UpdateProjectStatus(id, st, F(100), ""))
                  => Failed
          /\ \A id \in IDs, owner \in OwnersWritten :
               (owner \notin {"noor", "ahmad"} /\ SetContribution(id, owner, F(3), ""))
                  => Failed]_vars

\* C22 amended: every stored value is of its enumeration, and a write that
\* carries another value changes nothing; it fails when it is a CreateProject,
\* a SetContribution, or an UpdateProject or UpdateProjectStatus of an id that
\* has a row (on an id without a row the UPDATE returns nil).
C22_BadValueNotStored ==
    /\ []EnumerationsClosed
    /\ [][/\ \A st \in StatusesWritten, sec \in OwnersWritten :
               (BadProject(st, sec) /\ CreateProject(F(100), st, sec, "")) => Failed
          /\ \A id \in IDs, st \in StatusesWritten, sec \in OwnersWritten :
               (/\ BadProject(st, sec)
                /\ UpdateProject(id, F(100), st, sec, projects[id].StripePaymentID))
                  => /\ UNCHANGED <<projects, contributions, nextID>>
                     /\ projects[id] # NoProject => Failed
          /\ \A id \in IDs, st \in StatusesWritten :
               (BadProject(st, "both") /\ UpdateProjectStatus(id, st, F(100), ""))
                  => /\ UNCHANGED <<projects, contributions, nextID>>
                     /\ projects[id] # NoProject => Failed
          /\ \A id \in IDs, owner \in OwnersWritten :
               (owner \notin {"noor", "ahmad"} /\ SetContribution(id, owner, F(3), ""))
                  => Failed]_vars

C22_Witness ==
    /\ ret = WriteFailed
    /\ \E i, j \in IDs :
         /\ projects[i] # NoProject /\ projects[i].Status = "paid"
         /\ projects[i].SecuredBy = "both"
         /\ projects[j] # NoProject /\ projects[j].Status = "new"
         /\ RowOf(j, OwnerAhmad) # {}

\* C23: whenever every paid project has revenue >= 0 and no fetch of
\* contributions fails, the Metrics GetMetrics returns have
\* NoorShare + AhmadShare = TotalRevenue, whatever was written before.
C23_AggregateConservation ==
    (/\ Returned /\ ret.ledgerFailed = {}
     /\ \A id \in PaidIDs : projects[id].Revenue.n >= 0)
        => FAdd(ret.m.NoorShare, ret.m.AhmadShare) = ret.m.TotalRevenue

C23_Witness ==
    /\ Returned /\ ret.ledgerFailed = {}
    /\ \E i, j \in IDs :
         /\ i # j /\ PaidIDs = {i, j}
         /\ projects[i].Revenue = F(100) /\ projects[i].SecuredBy = OwnerBoth
         /\ StoredSplit(i).Method = "owner"
         /\ projects[j].Revenue = F(0)
    /\ ret.m.TotalRevenue = F(100)
    /\ ret.m.NoorShare = F(50)

(***************************************************************************)
(* handlers/stripe.go, StripeWebhook: one delivery at a time, and the same *)
(* event delivered again once the answer is out.                           *)
(***************************************************************************)
StatusOK == 200

MaxDeliveries == 3

EventTypes == {"payment_intent.succeeded", "charge.succeeded", "invoice.paid",
               "customer.created"}

\* the payment intents of the events: with and without an id, with and
\* without amount_received, the metadata naming a project, another, or none
WebhookPayments ==
    {PaymentIntent(id, received, 20000, pid) :
        id \in {"", "pi_1"}, received \in {0, 15000}, pid \in {0} \cup IDs}

\* a delivery: read is io.ReadAll without error, secret is
\* STRIPE_WEBHOOK_SECRET # "", signed is a Stripe-Signature that verifies,
\* parses is a body that unmarshals into stripe.Event, decodes is a
\* Data.Raw that unmarshals into stripe.PaymentIntent.  The deliveries that
\* pass every test carry each payment, the others one payment
WebhookRequests ==
    {req \in [read : BOOLEAN, secret : BOOLEAN, signed : BOOLEAN, parses : BOOLEAN,
              Type : EventTypes, decodes : BOOLEAN, pi : WebhookPayments] :
        \/ req.pi = PaymentIntent("pi_1", 15000, 20000, 1)
        \/ /\ req.read /\ req.signed /\ req.parses /\ req.decodes
           /\ req.Type = "payment_intent.succeeded"}

\* dev mode and production alike unmarshal the body and nothing more
EventParsedOnly(req) == req.parses

\* webhook.ConstructEvent when the secret is set, json.Unmarshal otherwise
EventAccepted(req) ==
    IF req.secret THEN req.signed /\ req.parses ELSE req.parses

\* switch event.Type: the one case that reaches the store
EventHandled(req) == req.Type = "payment_intent.succeeded"

\* where StripeWebhook stops before any lookup, "" when it does not
WebhookRejected(req) ==
    IF ~req.read THEN "read error"
    ELSE IF ~EventAccepted(req)
    THEN (IF req.secret THEN "signature verify failed" ELSE "parse error")
    ELSE IF ~EventHandled(req) THEN "ignored"
    ELSE IF ~req.decodes THEN "unmarshal error"
    ELSE ""

\* the answer's status chosen from how the delivery ended
WebhookBeginStatusLast(r, req, n, prev) ==
    /\ calls' = [calls EXCEPT ![r] =
                    [pc |-> IF WebhookRejected(req) = "" THEN "lookup" ELSE "done",
                     op |-> "webhook", req |-> req,
                     status |-> IF WebhookRejected(req) = "" THEN StatusOK ELSE 400,
                     id |-> 0, pi |-> req.pi, found |-> FALSE,
                     outcome |-> WebhookRejected(req), delivery |-> n,
                     prev |-> prev, after |-> <<projects, contributions>>]]
    /\ UNCHANGED <<storeVars, writeFrame>>

\* StripeWebhook down to the switch: w.WriteHeader(http.StatusOK) first, then
\* the returns.  delivery counts the deliveries of this event, prev is how
\* the delivery before ended, after is the store it left
WebhookBegin(r, req, n, prev) ==
    /\ calls' = [calls EXCEPT ![r] =
                    [pc |-> IF WebhookRejected(req) = "" THEN "lookup" ELSE "done",
                     op |-> "webhook", req |-> req, status |-> StatusOK,
                     id |-> 0, pi |-> req.pi, found |-> FALSE,
                     outcome |-> WebhookRejected(req), delivery |-> n,
                     prev |-> prev, after |-> <<projects, contributions>>]]
    /\ UNCHANGED <<storeVars, writeFrame>>

\* a delivery arrives
StripeWebhook(r, req) ==
    /\ calls[r] = Idle
    /\ WebhookBegin(r, req, 1, "")

\* the event of the delivery just answered arrives again
Redelivery(r) ==
    /\ calls[r].pc = "done"
    /\ calls[r].op = "webhook"
    /\ calls[r].delivery < MaxDeliveries
    /\ WebhookBegin(r, calls[r].req, calls[r].delivery + 1,
                    IF calls[r].found /\ calls[r].outcome = "" THEN "marked paid"
                    ELSE calls[r].outcome)

\* handlePaymentIntentSucceeded, the lookups: a database error, no project,
\* or the project
WebhookLookup(r) ==
    /\ calls[r].pc = "lookup"
    /\ \/ calls' = [calls EXCEPT ![r].pc = "done", ![r].outcome = "db error"]
       \/ \E id \in PaymentCandidates(calls[r].pi) :
            calls' = [calls EXCEPT ![r] =
                         IF GetProject(id) = NoProject
                         THEN [@ EXCEPT !.pc = "done", !.id = id,
                                        !.outcome = "no project found"]
                         ELSE [@ EXCEPT !.pc = "mark paid", !.id = id, !.found = TRUE]]
    /\ UNCHANGED <<storeVars, writeFrame>>

\* h.DB.UpdateProjectStatus returns an error: logged, nothing written
WebhookUpdateFailed(r) ==
    /\ calls[r].pc = "mark paid"
    /\ calls[r].op = "webhook"
    /\ calls' = [calls EXCEPT ![r].pc = "done", ![r].outcome = "update failed"]
    /\ UNCHANGED <<storeVars, writeFrame>>

\* projects and hours are entered between the deliveries
NextWebhook ==
    \/ calls = NoCalls /\ CreateProject(F(100), StatusNew, OwnerNoor, "") /\ UNCHANGED calls
    \/ /\ calls = NoCalls
       /\ \E id \in IDs : SetContribution(id, OwnerNoor, F(3), "")
       /\ UNCHANGED calls
    \/ Return
    \/ \E req \in WebhookRequests : StripeWebhook(1, req)
    \/ Redelivery(1)
    \/ WebhookLookup(1)
    \/ PaymentMarkPaid(1)
    \/ WebhookUpdateFailed(1)
    \/ RequestEnd(1)

SpecWebhook == Init /\ [][NextWebhook]_vars

\* the delivery of request 1 has marked its project paid
MarkedPaid ==
    /\ calls[1].pc = "done"
    /\ calls[1].op = "webhook"
    /\ calls[1].found
    /\ calls[1].outcome = ""

\* C24: a payment_intent.succeeded event that resolves to a project sets that
\* project's status to paid, its revenue to amount_received / 100, or to
\* amount / 100 when amount_received is not positive, and its
\* stripe_payment_id to the payment intent's id, whatever the project's status
\* and revenue were; no other project and no contribution row changes.
C24_PaymentMarksPaid ==
    [][PaymentMarkPaid(1) =>
         LET id == calls[1].id
             pi == calls[1].pi
         IN  /\ projects'[id].Status = StatusPaid
             /\ projects'[id].Revenue =
                    IF pi.AmountReceived > 0 THEN Norm(pi.AmountReceived, 100)
                    ELSE Norm(pi.Amount, 100)
             /\ projects'[id].StripePaymentID = pi.ID
             /\ \A j \in IDs \ {id} : projects'[j] = projects[j]
             /\ contributions' = contributions]_vars

\* a project already paid 150 is marked paid again by a payment without
\* amount_received, next to another project and a contribution row
C24_Witness ==
    /\ MarkedPaid
    /\ calls[1].pi.AmountReceived = 0
    /\ calls[1].after[1][calls[1].id].Status = StatusPaid
    /\ calls[1].after[1][calls[1].id].Revenue = F(150)
    /\ projects[calls[1].id].Revenue = F(200)
    /\ \E j \in IDs \ {calls[1].id} : projects[j] # NoProject
    /\ contributions # {}

\* the projects whose stripe_payment_id is the payment intent's id
MatchingStripeID(pi) ==
    {j \in IDs : projects[j] # NoProject /\ projects[j].StripePaymentID = pi.ID}

\* the payment of request 1 leaves the metadata's project as it was when the
\* stripe_payment_id named another
MetadataProjectKept ==
    [][(/\ PaymentMarkPaid(1)
        /\ calls[1].pi.project_id \in IDs
        /\ calls[1].pi.project_id # calls[1].id)
           => projects'[calls[1].pi.project_id] = projects[calls[1].pi.project_id]]_vars

\* C25: the project is looked up by stripe_payment_id equal to the payment
\* intent's id first, and the metadata's project_id is consulted only when no
\* project matches that id; when both match different projects only the
\* stripe-id match is updated.
C25_StripeIDFirst ==
    /\ [](calls[1].pc = "mark paid" =>
            IF MatchingStripeID(calls[1].pi) # {}
            THEN calls[1].id \in MatchingStripeID(calls[1].pi)
            ELSE calls[1].id = calls[1].pi.project_id)
    /\ MetadataProjectKept

\* C25, amended: the same for a payment intent with an id; a payment intent
\* whose id is empty is resolved by the metadata's project_id alone, whatever
\* projects have an empty stripe_payment_id.
C25_StripeIDFirstWhenSet ==
    /\ [](calls[1].pc = "mark paid" =>
            IF calls[1].pi.ID # "" /\ MatchingStripeID(calls[1].pi) # {}
            THEN calls[1].id \in MatchingStripeID(calls[1].pi)
            ELSE calls[1].id = calls[1].pi.project_id)
    /\ MetadataProjectKept

\* pi_1 paid one project and its metadata names another, which is still new
C25_Witness ==
    /\ MarkedPaid
    /\ calls[1].pi.ID = "pi_1"
    /\ calls[1].pi.project_id \in IDs
    /\ calls[1].pi.project_id # calls[1].id
    /\ projects[calls[1].pi.project_id] # NoProject
    /\ projects[calls[1].pi.project_id].Status = StatusNew
    /\ projects[calls[1].id].StripePaymentID = "pi_1"

\* the delivery was read, verified (or parsed, without a secret) and is a
\* payment_intent.succeeded
Verified(req) ==
    /\ req.read
    /\ IF req.secret THEN req.signed ELSE req.parses
    /\ req.Type = "payment_intent.succeeded"

\* C26: the webhook changes the store only if the body was read, the event
\* passed signature verification (or no secret is configured and the body
\* parsed), the type is payment_intent.succeeded and a project was resolved;
\* a delivery that ends in any other way (signature failure, parse error,
\* another type, lookup error, no project found) leaves every project and
\* every contribution as it found them.
C26_WriteGuard ==
    /\ [][(/\ calls' # calls
           /\ <<projects, contributions>>' # <<projects, contributions>>)
              => /\ calls[1].op = "webhook"
                 /\ Verified(calls[1].req)
                 /\ GetProject(calls[1].id) # NoProject]_vars
    /\ [](/\ calls[1].pc = "done"
          /\ calls[1].op = "webhook"
          /\ \/ ~Verified(calls[1].req)
             \/ calls[1].outcome \in {"db error", "no project found"}
          => <<projects, contributions>> = calls[1].after)

\* a payment for a stored project, signed wrongly with a secret configured:
\* answered, and the project is still new
C26_Witness ==
    /\ calls[1].pc = "done"
    /\ calls[1].op = "webhook"
    /\ calls[1].req.read /\ calls[1].req.parses /\ calls[1].req.decodes
    /\ calls[1].req.secret /\ ~calls[1].req.signed
    /\ calls[1].req.Type = "payment_intent.succeeded"
    /\ GetProject(calls[1].req.pi.project_id) # NoProject
    /\ GetProject(calls[1].req.pi.project_id).Status = StatusNew
    /\ contributions # {}

\* C27: the webhook answers 200 however the delivery ends: body read error,
\* signature failure, parse error, ignored type, no project, database failure
\* or success.
C27_AlwaysOK ==
    (calls[1].pc = "done" /\ calls[1].op = "webhook") => calls[1].status = 200

\* a delivery that failed its signature check has been answered
C27_Witness ==
    /\ calls[1].pc = "done"
    /\ calls[1].op = "webhook"
    /\ calls[1].outcome = "signature verify failed"
    /\ calls[1].status = 200

\* C28: when a payment_intent.succeeded event has marked its project paid and
\* is delivered again, once or twice, each further delivery leaves projects
\* and contributions exactly as the delivery before left them.
C28_RedeliveryIdempotent ==
    (/\ calls[1].pc = "done"
     /\ calls[1].op = "webhook"
     /\ calls[1].delivery >= 2
     /\ calls[1].prev = "marked paid")
        => <<projects, contributions>> = calls[1].after

\* the third delivery of pi_1 has marked the project of its metadata paid again
C28_Witness ==
    /\ MarkedPaid
    /\ calls[1].delivery = 3
    /\ calls[1].prev = "marked paid"
    /\ calls[1].pi.ID = "pi_1"
    /\ calls[1].pi.project_id = calls[1].id
    /\ projects[calls[1].id].Revenue = F(150)
    /\ contributions # {}

(***************************************************************************)
(* store/db.go, DeleteProject and the foreign key of contributions         *)
(***************************************************************************)
\* the rows of contributions that belong to other projects than id
RowsOfOthers(rows, id) == {c \in rows : c.ProjectID # id}

\* C29: after DeleteProject(id) neither the project nor a contribution with
\* that project id remains and every other project and contribution is
\* unchanged; and after any sequence of store operations every contribution
\* row references an existing project.
C29_DeleteCascades ==
    /\ [][\A id \in IDs :
            DeleteProject(id) =>
                /\ projects'[id] = NoProject
                /\ \A c \in contributions' : c.ProjectID # id
                /\ \A j \in IDs \ {id} : projects'[j] = projects[j]
                /\ RowsOfOthers(contributions', id) = RowsOfOthers(contributions, id)]_vars
    /\ [](\A c \in contributions :
            c.ProjectID \in IDs /\ projects[c.ProjectID] # NoProject)

\* the first project is gone, the second is there with its hours
C29_Witness ==
    /\ nextID > 2
    /\ projects[1] = NoProject
    /\ projects[2] # NoProject
    /\ \E c \in contributions : c.ProjectID = 2
    /\ \A c \in contributions : c.ProjectID # 1

(***************************************************************************)
(* db.calculateSplit next to store.CalcRevenueSplit on the same input      *)
(***************************************************************************)
\* the list as the legacy package holds it: Person for Owner
dbContributionsOf(cs) ==
    [i \in 1 .. Len(cs) |-> dbContribution(0, cs[i].Owner, cs[i].Hours)]

\* C30: for every project and every contribution list with at most one entry
\* per collaborator of noor and ahmad, calculateSplit returns the NoorShare,
\* AhmadShare and method that CalcRevenueSplit returns, also when only one of
\* the two has positive hours.
C30_SplitsAgree ==
    (/\ Called
     /\ OneEntryEach(contribs)
     /\ \A i \in 1 .. Len(contribs) : contribs[i].Owner \in {OwnerNoor, OwnerAhmad})
        => calculateSplit(p, dbContributionsOf(contribs)) = split

====
